---- MODULE Spec2Model ----
(***************************************************************************)
(* Model of src/app.js: an Express application over one SQLite database    *)
(* with two tables, customers and addresses.  Every route handler issues   *)
(* one SQL statement, except GET /api/customers, which issues a COUNT and, *)
(* from its callback, a SELECT.  Text values are tuples of one-character   *)
(* strings, so that LIKE can be computed character by character.           *)
(***************************************************************************)
EXTENDS Integers, Sequences, FiniteSets

VARIABLES
    customers,       \* rows of table customers
    addresses,       \* rows of table addresses
    customers_seq,   \* sqlite_sequence entry of customers (AUTOINCREMENT)
    addresses_seq,   \* sqlite_sequence entry of addresses (AUTOINCREMENT)
    listReq,         \* GET /api/customers between its COUNT and its SELECT
    res,             \* what the step just taken sent to its caller
    everHeld,        \* history: every id a customers row has held
    deleted,         \* history: ids of customers deleted with a 200
    pristine         \* history: rows that still hold the values they were created with

vars == <<customers, addresses, customers_seq, addresses_seq, listReq, res,
          everHeld, deleted, pristine>>

----------------------------------------------------------------------------
\* Bounds of the model.

\* Largest value customers' AUTOINCREMENT counter reaches.
MaxCustomers == 2

\* Largest value addresses' AUTOINCREMENT counter reaches.
MaxAddresses == 1

\* Largest page number a request asks for.
MaxPage == 2

\* Largest limit a request gives explicitly.
MaxLimit == 2

\* const { page = 1, limit = 10, search = '' } = req.query
DefaultPage == 1

DefaultLimit == 10

\* Ids a path parameter names: every id the tables can hold and one more.
CustomerIds == 1..(MaxCustomers + 1)

AddressIds == 1..(MaxAddresses + 1)

\* Customer ids the address routes of a customer are asked for: the first id
\* the table assigns, and the id it never assigns.
ReferredIds == {1, MaxCustomers + 1}

\* An absent or empty field of a request body.
Absent == <<>>

\* Text values of request bodies.
FirstNames == {<<"A", "n">>}

LastNames == {<<"L", "i">>}

PhoneNumbers == {<<"5", "5", "5">>, <<"1", "2">>, <<"5", "5", "0">>}

AddressDetails == {<<"x">>, <<"y">>}

Cities == {<<"c">>}

States == {<<"s">>}

PinCodes == {<<"1">>}

\* Values of the query parameter search; <<>> is absent or empty.
Searches == {<<>>, <<"5", "5">>, <<"a">>, <<"_">>}

\* A numeric query parameter: <<>> when absent, <<n>> when given.
PageParams == {<<>>} \cup {<<n>> : n \in 0..MaxPage}

LimitParams == {<<>>} \cup {<<n>> : n \in 1..MaxLimit}

\* Request bodies: every field present, or one of the fields absent.
FullCustomerBodies == [first_name : FirstNames, last_name : LastNames,
                       phone_number : PhoneNumbers]

CustomerBodies ==
    FullCustomerBodies
        \cup {[first_name |-> Absent, last_name |-> <<"L", "i">>,
               phone_number |-> <<"1", "2">>],
              [first_name |-> <<"A", "n">>, last_name |-> Absent,
               phone_number |-> <<"1", "2">>],
              [first_name |-> <<"A", "n">>, last_name |-> <<"L", "i">>,
               phone_number |-> Absent]}

FullAddressBodies == [address_details : AddressDetails, city : Cities,
                      state : States, pin_code : PinCodes]

AddressBodies ==
    FullAddressBodies
        \cup {[address_details |-> Absent, city |-> <<"c">>,
               state |-> <<"s">>, pin_code |-> <<"1">>],
              [address_details |-> <<"x">>, city |-> Absent,
               state |-> <<"s">>, pin_code |-> <<"1">>],
              [address_details |-> <<"x">>, city |-> <<"c">>,
               state |-> Absent, pin_code |-> <<"1">>],
              [address_details |-> <<"x">>, city |-> <<"c">>,
               state |-> <<"s">>, pin_code |-> Absent]}

----------------------------------------------------------------------------
\* Helpers.

Max(S) == CHOOSE x \in S : \A y \in S : y <= x

Ids(rows) == {r.id : r \in rows}

\* The rows of a table in rowid order, as a SELECT without ORDER BY scans them.
RECURSIVE InRowidOrder(_)
InRowidOrder(rows) ==
    IF rows = {} THEN <<>>
    ELSE LET first == CHOOSE r \in rows : \A q \in rows : r.id <= q.id
         IN  <<first>> \o InRowidOrder(rows \ {first})

\* JavaScript's !v for a body field: undefined and '' are falsy.
Falsy(v) == v = Absent

NoBody == <<>>

NoPagination == [total |-> 0, page |-> 0, limit |-> 0, totalPages |-> 0]

NoReq == [pending |-> FALSE, page |-> <<>>, limit |-> <<>>, search |-> <<>>,
          total |-> 0]

\* res.status(status).json(...)
Response(op, status, pid, body, id, data, pagination) ==
    [op |-> op, status |-> status, pid |-> pid, body |-> body, id |-> id,
     data |-> data, pagination |-> pagination]

NoResponse == Response("none", 0, 0, NoBody, 0, <<>>, NoPagination)

\* sendError(res, status, ...)
sendError(op, status, pid, body) ==
    Response(op, status, pid, body, 0, <<>>, NoPagination)

----------------------------------------------------------------------------
\* The store: SQLite as the code uses it.

\* Foreign-key enforcement as a connection that turned it on would have it.
foreign_keys_on == TRUE

\* The connection never issues PRAGMA foreign_keys = ON, and SQLite leaves
\* foreign-key enforcement off unless a connection turns it on.
foreign_keys == FALSE

\* A rowid chosen without AUTOINCREMENT: one more than the largest in the table.
RowidWithoutAutoincrement(rows, seq) ==
    IF rows = {} THEN 1 ELSE Max(Ids(rows)) + 1

\* INTEGER PRIMARY KEY AUTOINCREMENT: one more than the largest rowid the
\* table has ever held, which sqlite_sequence records.
AutoincrementRowid(rows, seq) ==
    IF rows # {} /\ Max(Ids(rows)) > seq THEN Max(Ids(rows)) + 1 ELSE seq + 1

\* phone_number TEXT NOT NULL UNIQUE, checked for the row with id `self`.
NoUniqueViolation(rows, self, phone) == FALSE

UniqueViolation(rows, self, phone) ==
    \E r \in rows : r.id # self /\ r.phone_number = phone

\* this.changes counted as the rows an UPDATE really altered.
ChangesOnlyIfAltered(matched, written) == Cardinality(matched \ written)

\* this.changes after an UPDATE or DELETE: the rows its WHERE matched.
sqlite3_changes(matched, written) == Cardinality(matched)

\* ASCII lower case of the letters the model's texts use: LIKE ignores case.
Lower(c) ==
    CASE c = "A" -> "a"
      [] c = "L" -> "l"
      [] OTHER -> c

\* text LIKE pattern, without ESCAPE: % matches any run of characters and _
\* any one character, wherever the pattern holds them.
RECURSIVE Like(_, _)
Like(pattern, text) ==
    IF pattern = <<>> THEN text = <<>>
    ELSE IF Head(pattern) = "%"
         THEN Like(Tail(pattern), text)
              \/ (text # <<>> /\ Like(pattern, Tail(text)))
    ELSE IF text = <<>> THEN FALSE
    ELSE IF Head(pattern) = "_" THEN Like(Tail(pattern), Tail(text))
    ELSE Lower(Head(pattern)) = Lower(Head(text))
         /\ Like(Tail(pattern), Tail(text))

\* `%${search}%`
LikePattern(search) == <<"%">> \o search \o <<"%">>

\* The rows that countSql and sql select: all of them, or with a search
\* those of WHERE first_name LIKE ? OR last_name LIKE ? OR phone_number LIKE ?
Matching(rows, search) ==
    IF Falsy(search) THEN rows
    ELSE {r \in rows : \/ Like(LikePattern(search), r.first_name)
                       \/ Like(LikePattern(search), r.last_name)
                       \/ Like(LikePattern(search), r.phone_number)}

\* A query parameter, or its destructuring default when it is absent.
Param(given, default) == IF given = <<>> THEN default ELSE given[1]

\* An offset that takes the page number for the number of pages to skip.
OffsetFromPageNumber(page, limit) == page * limit

\* const offset = (page - 1) * limit
Offset(page, limit) == (page - 1) * limit

\* Math.ceil(total / limit), for limit > 0
Ceil(total, limit) ==
    IF total % limit = 0 THEN total \div limit ELSE (total \div limit) + 1

\* LIMIT ? OFFSET ?: a negative offset skips nothing, a negative limit is
\* no limit.
LimitOffset(seq, limit, offset) ==
    LET skip == IF offset < 0 THEN 0 ELSE offset
        last == IF limit < 0 \/ skip + limit > Len(seq) THEN Len(seq)
                ELSE skip + limit
    IN  SubSeq(seq, skip + 1, last)

----------------------------------------------------------------------------
\* Customer routes.

Init ==
    /\ customers = {}
    /\ addresses = {}
    /\ customers_seq = 0
    /\ addresses_seq = 0
    /\ listReq = NoReq
    /\ res = NoResponse
    /\ everHeld = {}
    /\ deleted = {}
    /\ pristine = {}

\* The rows an UPDATE customers ... WHERE id = ? leaves in the table.
UpsertedCustomers(pid, b) ==
    {r \in customers : r.id # pid}
        \cup {[id |-> pid, first_name |-> b.first_name,
               last_name |-> b.last_name, phone_number |-> b.phone_number]}

UpdatedCustomers(pid, b) ==
    {IF r.id = pid
       THEN [r EXCEPT !.first_name = b.first_name, !.last_name = b.last_name,
                      !.phone_number = b.phone_number]
       ELSE r : r \in customers}

\* POST /api/customers
CreateCustomer(b) ==
    LET id == AutoincrementRowid(customers, customers_seq)
        row == [id |-> id, first_name |-> b.first_name,
                last_name |-> b.last_name, phone_number |-> b.phone_number]
    IN  IF Falsy(b.first_name) \/ Falsy(b.last_name) \/ Falsy(b.phone_number)
        THEN /\ res' = sendError("createCustomer", 400, 0, b)
             /\ UNCHANGED <<customers, addresses, customers_seq, addresses_seq,
                            listReq, everHeld, deleted, pristine>>
        ELSE IF UniqueViolation(customers, id, b.phone_number)
        THEN /\ res' = sendError("createCustomer", 500, 0, b)
             /\ UNCHANGED <<customers, addresses, customers_seq, addresses_seq,
                            listReq, everHeld, deleted, pristine>>
        ELSE /\ customers_seq < MaxCustomers
             /\ customers' = customers \cup {row}
             /\ customers_seq' = id
             /\ res' = Response("createCustomer", 201, 0, b, id, <<>>,
                                NoPagination)
             /\ everHeld' = everHeld \cup {id}
             /\ pristine' = pristine \cup {row}
             /\ UNCHANGED <<addresses, addresses_seq, listReq, deleted>>

\* GET /api/customers/:id
GetCustomer(pid) ==
    LET matched == {r \in customers : r.id = pid}
    IN  /\ res' = IF matched = {}
                  THEN sendError("getCustomer", 404, pid, NoBody)
                  ELSE Response("getCustomer", 200, pid, NoBody, 0,
                                InRowidOrder(matched), NoPagination)
        /\ UNCHANGED <<customers, addresses, customers_seq, addresses_seq,
                       listReq, everHeld, deleted, pristine>>

\* PUT /api/customers/:id
UpdateCustomer(pid, b) ==
    LET matched == {r \in customers : r.id = pid}
        after == UpdatedCustomers(pid, b)
        written == after \ {r \in customers : r.id # pid}
    IN  IF Falsy(b.first_name) \/ Falsy(b.last_name) \/ Falsy(b.phone_number)
        THEN /\ res' = sendError("updateCustomer", 400, pid, b)
             /\ UNCHANGED <<customers, addresses, customers_seq, addresses_seq,
                            listReq, everHeld, deleted, pristine>>
        ELSE IF matched # {} /\ UniqueViolation(customers, pid, b.phone_number)
        THEN /\ res' = sendError("updateCustomer", 500, pid, b)
             /\ UNCHANGED <<customers, addresses, customers_seq, addresses_seq,
                            listReq, everHeld, deleted, pristine>>
        ELSE /\ customers' = after
             /\ res' = IF sqlite3_changes(matched, written) = 0
                       THEN sendError("updateCustomer", 404, pid, b)
                       ELSE Response("updateCustomer", 200, pid, b, 0, <<>>,
                                     NoPagination)
             /\ pristine' = pristine \cap after
             /\ UNCHANGED <<addresses, customers_seq, addresses_seq, listReq,
                            everHeld, deleted>>

\* DELETE /api/customers/:id
DeleteCustomer(pid) ==
    LET matched == {r \in customers : r.id = pid}
    IN  /\ customers' = customers \ matched
        /\ addresses' = IF foreign_keys /\ matched # {}
                        THEN {a \in addresses : a.customer_id # pid}
                        ELSE addresses
        /\ res' = IF sqlite3_changes(matched, {}) = 0
                  THEN sendError("deleteCustomer", 404, pid, NoBody)
                  ELSE Response("deleteCustomer", 200, pid, NoBody, 0, <<>>,
                                NoPagination)
        /\ deleted' = IF matched = {} THEN deleted ELSE deleted \cup {pid}
        /\ pristine' = pristine \ matched
        /\ UNCHANGED <<customers_seq, addresses_seq, listReq, everHeld>>

\* GET /api/customers: the handler up to the callback of db.get(countSql).
ListCount(p, l, s) ==
    /\ ~listReq.pending
    /\ listReq' = [pending |-> TRUE, page |-> p, limit |-> l, search |-> s,
                   total |-> Cardinality(Matching(customers, s))]
    /\ res' = NoResponse
    /\ UNCHANGED <<customers, addresses, customers_seq, addresses_seq,
                   everHeld, deleted, pristine>>

\* GET /api/customers: db.all(sql) and the response its callback sends.
ListSelect ==
    LET page == Param(listReq.page, DefaultPage)
        limit == Param(listReq.limit, DefaultLimit)
        rows == LimitOffset(InRowidOrder(Matching(customers, listReq.search)),
                            limit, Offset(page, limit))
    IN  /\ listReq.pending
        /\ listReq' = NoReq
        /\ res' = Response("listCustomers", 200, 0,
                           [page |-> listReq.page, limit |-> listReq.limit,
                            search |-> listReq.search],
                           0, rows,
                           [total |-> listReq.total, page |-> page,
                            limit |-> limit,
                            totalPages |-> Ceil(listReq.total, limit)])
        /\ UNCHANGED <<customers, addresses, customers_seq, addresses_seq,
                       everHeld, deleted, pristine>>

----------------------------------------------------------------------------
\* Address routes.

\* POST /api/customers/:id/addresses
CreateAddress(cid, b) ==
    LET id == AutoincrementRowid(addresses, addresses_seq)
        row == [id |-> id, customer_id |-> cid,
                address_details |-> b.address_details, city |-> b.city,
                state |-> b.state, pin_code |-> b.pin_code]
    IN  IF \/ Falsy(b.address_details) \/ Falsy(b.city)
           \/ Falsy(b.state) \/ Falsy(b.pin_code)
        THEN /\ res' = sendError("createAddress", 400, cid, b)
             /\ UNCHANGED <<customers, addresses, customers_seq, addresses_seq,
                            listReq, everHeld, deleted, pristine>>
        ELSE IF foreign_keys /\ cid \notin Ids(customers)
        THEN /\ res' = sendError("createAddress", 500, cid, b)
             /\ UNCHANGED <<customers, addresses, customers_seq, addresses_seq,
                            listReq, everHeld, deleted, pristine>>
        ELSE /\ addresses_seq < MaxAddresses
             /\ addresses' = addresses \cup {row}
             /\ addresses_seq' = id
             /\ res' = Response("createAddress", 201, cid, b, id, <<>>,
                                NoPagination)
             /\ UNCHANGED <<customers, customers_seq, listReq, everHeld,
                            deleted, pristine>>

\* GET /api/customers/:id/addresses
ListAddresses(cid) ==
    /\ res' = Response("listAddresses", 200, cid, NoBody, 0,
                       InRowidOrder({a \in addresses : a.customer_id = cid}),
                       NoPagination)
    /\ UNCHANGED <<customers, addresses, customers_seq, addresses_seq,
                   listReq, everHeld, deleted, pristine>>

\* PUT /api/addresses/:addressId
UpdateAddress(aid, b) ==
    LET matched == {a \in addresses : a.id = aid}
        written == {[a EXCEPT !.address_details = b.address_details,
                              !.city = b.city, !.state = b.state,
                              !.pin_code = b.pin_code] : a \in matched}
    IN  IF \/ Falsy(b.address_details) \/ Falsy(b.city)
           \/ Falsy(b.state) \/ Falsy(b.pin_code)
        THEN /\ res' = sendError("updateAddress", 400, aid, b)
             /\ UNCHANGED <<customers, addresses, customers_seq, addresses_seq,
                            listReq, everHeld, deleted, pristine>>
        ELSE /\ addresses' = (addresses \ matched) \cup written
             /\ res' = IF sqlite3_changes(matched, written) = 0
                       THEN sendError("updateAddress", 404, aid, b)
                       ELSE Response("updateAddress", 200, aid, b, 0, <<>>,
                                     NoPagination)
             /\ UNCHANGED <<customers, customers_seq, addresses_seq, listReq,
                            everHeld, deleted, pristine>>

\* DELETE /api/addresses/:addressId
DeleteAddress(aid) ==
    LET matched == {a \in addresses : a.id = aid}
    IN  /\ addresses' = addresses \ matched
        /\ res' = IF sqlite3_changes(matched, {}) = 0
                  THEN sendError("deleteAddress", 404, aid, NoBody)
                  ELSE Response("deleteAddress", 200, aid, NoBody, 0, <<>>,
                                NoPagination)
        /\ UNCHANGED <<customers, customers_seq, addresses_seq, listReq,
                       everHeld, deleted, pristine>>

----------------------------------------------------------------------------
\* Requests arrive in any order and with any input.

Next ==
    \/ \E b \in CustomerBodies : CreateCustomer(b)
    \/ \E pid \in CustomerIds : GetCustomer(pid)
    \/ \E pid \in CustomerIds, b \in CustomerBodies : UpdateCustomer(pid, b)
    \/ \E pid \in CustomerIds : DeleteCustomer(pid)
    \/ \E p \in PageParams, l \in LimitParams, s \in Searches :
           ListCount(p, l, s)
    \/ ListSelect
    \/ \E cid \in ReferredIds, b \in AddressBodies : CreateAddress(cid, b)
    \/ \E cid \in ReferredIds : ListAddresses(cid)
    \/ \E aid \in AddressIds, b \in AddressBodies : UpdateAddress(aid, b)
    \/ \E aid \in AddressIds : DeleteAddress(aid)

Spec == Init /\ [][Next]_vars

\* The customer routes alone.
NextCustomers ==
    \/ \E b \in CustomerBodies : CreateCustomer(b)
    \/ \E pid \in CustomerIds : GetCustomer(pid)
    \/ \E pid \in CustomerIds, b \in CustomerBodies : UpdateCustomer(pid, b)
    \/ \E pid \in CustomerIds : DeleteCustomer(pid)

SpecCustomers == Init /\ [][NextCustomers]_vars

\* The address routes, with the customer routes that create and delete the
\* rows they refer to.
NextAddresses ==
    \/ \E b \in CustomerBodies : CreateCustomer(b)
    \/ \E pid \in CustomerIds : DeleteCustomer(pid)
    \/ \E cid \in ReferredIds, b \in AddressBodies : CreateAddress(cid, b)
    \/ \E cid \in ReferredIds : ListAddresses(cid)
    \/ \E aid \in AddressIds, b \in AddressBodies : UpdateAddress(aid, b)
    \/ \E aid \in AddressIds : DeleteAddress(aid)

SpecAddresses == Init /\ [][NextAddresses]_vars

\* The listing route, with other requests' creates and deletes running
\* between its two statements.
NextList ==
    \/ \E b \in CustomerBodies : CreateCustomer(b)
    \/ \E pid \in CustomerIds : DeleteCustomer(pid)
    \/ \E p \in PageParams, l \in LimitParams, s \in Searches :
           ListCount(p, l, s)
    \/ ListSelect

SpecList == Init /\ [][NextList]_vars

\* The two update routes, with the routes that create the rows they update.
NextUpdates ==
    \/ \E b \in CustomerBodies : CreateCustomer(b)
    \/ \E pid \in CustomerIds, b \in CustomerBodies : UpdateCustomer(pid, b)
    \/ \E cid \in ReferredIds, b \in AddressBodies : CreateAddress(cid, b)
    \/ \E aid \in AddressIds, b \in AddressBodies : UpdateAddress(aid, b)

SpecUpdates == Init /\ [][NextUpdates]_vars

----------------------------------------------------------------------------
\* Properties of the customer routes.

\* Every field of a customer body is present.
FullCustomerBody(b) ==
    b.first_name # Absent /\ b.last_name # Absent /\ b.phone_number # Absent

\* Every field of an address body is present.
FullAddressBody(b) ==
    /\ b.address_details # Absent /\ b.city # Absent
    /\ b.state # Absent /\ b.pin_code # Absent

\* C1: a DELETE /api/customers/c answered 200 leaves no customers row with
\* id c and no addresses row with customer_id c, and a GET
\* /api/customers/c/addresses that follows it returns an empty list.
C1_DeleteCascades ==
    [][/\ (res'.op = "deleteCustomer" /\ res'.status = 200)
            => /\ res'.pid \notin Ids(customers')
               /\ \A a \in addresses' : a.customer_id # res'.pid
       /\ (/\ res.op = "deleteCustomer" /\ res.status = 200
           /\ res'.op = "listAddresses" /\ res'.pid = res.pid)
            => res'.data = <<>>]_vars

\* C2: a POST /api/customers with every field present and the phone_number
\* of an existing row is answered 500 without an id and leaves the table as
\* it was; so no two rows ever share a phone_number, whatever the order of
\* the creates.
C2_DuplicatePhoneRejected ==
    /\ [][(/\ res'.op = "createCustomer"
           /\ FullCustomerBody(res'.body)
           /\ \E r \in customers : r.phone_number = res'.body.phone_number)
            => /\ res'.status = 500
               /\ res'.id = 0
               /\ customers' = customers]_vars
    /\ [](\A r, q \in customers : r.phone_number = q.phone_number => r = q)

\* C2 happens: a create was refused for the phone number of an existing row.
C2_Witness ==
    /\ res.op = "createCustomer"
    /\ res.status = 500
    /\ \E r \in customers : r.phone_number = res.body.phone_number

\* C3: the id a successful POST /api/customers returns is greater than every
\* id an earlier create returned and is no id a customers row ever held.
C3_IdsIncreaseAndAreNotReused ==
    [][(res'.op = "createCustomer" /\ res'.status = 201)
         => /\ res'.id \notin everHeld
            /\ \A j \in everHeld : res'.id > j
            /\ \E r \in customers' : r.id = res'.id /\ r \notin customers]_vars

\* C3 happens: a create succeeded after the row with the largest id so far
\* had been deleted.
C3_Witness ==
    /\ res.op = "createCustomer"
    /\ res.status = 201
    /\ res.id - 1 \in deleted
    /\ \A r \in customers : r.id = res.id

\* C6: a PUT /api/customers/:id with every field present whose id names no
\* row is answered 404 and leaves the table as it was.
C6_UpdateOfMissingCustomer ==
    [][(/\ res'.op = "updateCustomer"
        /\ FullCustomerBody(res'.body)
        /\ res'.pid \notin Ids(customers))
         => /\ res'.status = 404
            /\ customers' = customers]_vars

\* C6 happens: an update of an id that names no row, beside existing rows.
C6_Witness ==
    /\ res.op = "updateCustomer"
    /\ res.status = 404
    /\ FullCustomerBody(res.body)
    /\ res.pid \notin Ids(customers)
    /\ customers # {}

\* C7: GET /api/customers/i returns 200 and the created values as long as
\* the row holds them; once DELETE /api/customers/i was answered 200, every
\* GET of i and every further DELETE of i is answered 404.
C7_CustomerLifecycle ==
    [][/\ (res'.op = "getCustomer" /\ \E r \in pristine' : r.id = res'.pid)
            => /\ res'.status = 200
               /\ \E r \in pristine' : res'.data = <<r>>
       /\ (res'.op = "getCustomer" /\ res'.pid \in deleted')
            => res'.status = 404
       /\ (res'.op = "deleteCustomer" /\ res'.pid \in deleted)
            => res'.status = 404]_vars

\* C7 happens: a GET of a deleted id, after a later create, is answered 404.
C7_Witness ==
    /\ res.op = "getCustomer"
    /\ res.status = 404
    /\ res.pid \in deleted
    /\ \E r \in customers : r.id > res.pid

----------------------------------------------------------------------------
\* Properties of the address routes and of the update routes.

\* C8: a POST /api/customers/:id/addresses with every field present inserts
\* one row for :id and returns 201 with an id no addresses row holds,
\* whether or not :id names a customers row.
C8_AddressInsertedForAnyCustomerId ==
    [][(res'.op = "createAddress" /\ FullAddressBody(res'.body))
         => /\ res'.status = 201
            /\ res'.id \notin Ids(addresses)
            /\ addresses' = addresses \cup
                   {[id |-> res'.id, customer_id |-> res'.pid,
                     address_details |-> res'.body.address_details,
                     city |-> res'.body.city, state |-> res'.body.state,
                     pin_code |-> res'.body.pin_code]}]_vars

\* C8 happens: an address was created for an id that names no customer, so
\* the table holds an address that refers to no customers row.
C8_Witness ==
    /\ res.op = "createAddress"
    /\ res.status = 201
    /\ res.pid \notin Ids(customers)
    /\ \E a \in addresses : a.id = res.id /\ a.customer_id = res.pid

\* The row a PUT /api/customers/:id names holds the submitted values already.
SameCustomerValues(rows, pid, b) ==
    \E r \in rows : /\ r.id = pid
                    /\ r.first_name = b.first_name
                    /\ r.last_name = b.last_name
                    /\ r.phone_number = b.phone_number

\* The row a PUT /api/addresses/:addressId names holds the submitted values
\* already.
SameAddressValues(rows, aid, b) ==
    \E a \in rows : /\ a.id = aid
                    /\ a.address_details = b.address_details
                    /\ a.city = b.city
                    /\ a.state = b.state
                    /\ a.pin_code = b.pin_code

----------------------------------------------------------------------------
\* Properties of the listing route.

\* The rows of a list response, as a set.
DataRows(data) == {data[i] : i \in 1..Len(data)}

\* C4: for page >= 1 and limit >= 1 a 200 response of GET /api/customers
\* holds at most limit rows, the matching rows from position
\* (page-1)*limit on, and totalPages is the least number of pages of limit
\* rows that hold total rows; total is the number of matching rows counted
\* without regard to page and limit.
C4_PageWindowAndTotalPages ==
    [][/\ (/\ res'.op = "listCustomers" /\ res'.status = 200
           /\ res'.pagination.page >= 1 /\ res'.pagination.limit >= 1)
            => LET data == res'.data
                   pg == res'.pagination
                   m == Matching(customers', res'.body.search)
                   skipped == (pg.page - 1) * pg.limit
                   left == IF Cardinality(m) > skipped
                           THEN Cardinality(m) - skipped ELSE 0
               IN  /\ Len(data) <= pg.limit
                   /\ Len(data) = IF left < pg.limit THEN left ELSE pg.limit
                   /\ \A i \in 1..Len(data) :
                          /\ data[i] \in m
                          /\ Cardinality({q \in m : q.id < data[i].id})
                                 = skipped + i - 1
                   /\ pg.totalPages * pg.limit >= pg.total
                   /\ (pg.totalPages - 1) * pg.limit < pg.total
                   /\ pg.totalPages >= 0
       /\ (~listReq.pending /\ listReq'.pending)
            => listReq'.total
                   = Cardinality(Matching(customers, listReq'.search))]_vars

\* C4 happens: the second page of one row each, out of two pages.
C4_Witness ==
    /\ res.op = "listCustomers"
    /\ res.status = 200
    /\ res.pagination.page = 2
    /\ res.pagination.limit = 1
    /\ res.pagination.totalPages = 2
    /\ Len(res.data) = 1

\* text contains s as a substring, letters compared without regard to case.
Contains(text, s) ==
    \E i \in 1..(Len(text) - Len(s) + 1) :
        \A j \in 1..Len(s) : Lower(text[i + j - 1]) = Lower(s[j])

\* C5: a GET /api/customers with a non-empty search returns exactly the
\* customers of which first_name, last_name or phone_number contains the
\* search text.  Stated for a response that holds the whole result on its
\* first page, and with the store's disregard of case.
C5_SearchIsSubstringMatch ==
    (/\ res.op = "listCustomers" /\ res.status = 200
     /\ res.body.search # <<>>
     /\ res.pagination.page = 1
     /\ res.pagination.limit >= Cardinality(customers))
        => DataRows(res.data)
               = {r \in customers :
                      \/ Contains(r.first_name, res.body.search)
                      \/ Contains(r.last_name, res.body.search)
                      \/ Contains(r.phone_number, res.body.search)}

\* C10: in a 200 response of GET /api/customers, total is the number of
\* matching customers in the table the rows were read from, and no more
\* rows are returned than total.
C10_TotalMatchesRowsRead ==
    (res.op = "listCustomers" /\ res.status = 200)
        => /\ res.pagination.total
                  = Cardinality(Matching(customers, res.body.search))
           /\ Len(res.data) <= res.pagination.total

====
